---- MODULE Spec2Model ----
(***************************************************************************)
(* A model of UkWofost's weather cache (ukwofost/weather_manager.py) and   *)
(* of its British National Grid codec (ukwofost/utils.py).                 *)
(*                                                                         *)
(* Spec      callers construct NetCDFWeatherDataProvider one at a time     *)
(* SpecConc  the same steps, with the callers' constructions overlapping   *)
(* SpecCodec lonlat2osgrid / osgrid2lonlat on projected coordinates        *)
(* SpecParse osgrid2lonlat / osgrid2bbox on a string                       *)
(* SpecBuild the build of a series: the 360-day calendar made Gregorian,   *)
(*           the rows read into the store, the store dumped                *)
(* SpecRow   one column of one row in _read_observations, both providers  *)
(* SpecExtract the rows of the grid point taken from the dataset           *)
(* SpecLabel find_contiguous_sets on a column                              *)
(* SpecTile  the tile and file names made from a reference                 *)
(* SpecParcel ParcelWeatherDataProvider and its CSV and cache files        *)
(***************************************************************************)
EXTENDS Integers, Sequences, FiniteSets, TLC

(***************************************************************************)
(* Bounds of the model and constants of the program.                       *)
(***************************************************************************)
\* callers that construct a provider for one and the same cache key
Callers == {"a", "b"}
\* constructions started in one behaviour
MaxCalls == 3
\* steps of the clock in one behaviour
MaxTicks == 1
\* versions the archive file goes through
MaxVer == 2
\* weather_manager.py:175, "if age < 90"
MaxAgeDays == 90
\* parts of a metre a projected coordinate is measured in
Grain == 2
\* the latest time of the clock of the parcel files
MaxClock == 2

VARIABLES
    now,       \* today's date, in days
    ticks,     \* clock steps taken
    calls,     \* constructions started
    cache,     \* the cache file of the key under METEO_CACHE_DIR
    archive,   \* the Chess-Scape netCDF file of the 10 km tile
    dtm,       \* the terrain database: "up" or "down"
    provider,  \* per caller: the provider under construction
    prev,      \* the outcome of the construction that has just returned
    stage,     \* codec: "input", "encoded" or "decoded"
    coords,    \* codec: the projected point <<x, y>>, in 1/Grain metres
    figs,      \* codec: the number of figures asked for
    gridref,   \* codec: the grid reference, a sequence of characters
    err,       \* codec: the exception raised, or "none"
    decoded,   \* codec: the point <<x, y>> decoded from gridref, in metres
    text,      \* parsing: the string given as gridref
    cellsize,  \* parsing: the os_cellsize given
    pstage,    \* parsing: "input", "point" or "box"
    perr,      \* parsing: the exception raised by osgrid2lonlat, or "none"
    point,     \* parsing: the point <<x, y>> returned by osgrid2lonlat
    berr,      \* parsing: the exception raised by osgrid2bbox, or "none"
    box,       \* parsing: the dictionary returned by osgrid2bbox
    nstage,    \* build: "source", "fill", "sorted", "read" or "dumped"
    years,     \* build: the years of the source rows, 360 rows a year
    frame,     \* build: os_dataframe, a sequence of rows [DAY, VAL]
    missing,   \* build: the days of missing_days not visited yet
    bad,       \* build: the source rows whose values fail in _read_observations
    store,     \* build: the provider's store, a set of rows [DAY, VAL]
    pickled,   \* build: the cache file of the build: written or not, and the store in it
    berror,    \* build: the exception that ended the build, or "none"
    rprov,     \* row: the provider reading the value, "netcdf" or "parcel"
    rlabel,    \* row: the column of the value
    rvalue,    \* row: the value read, [nan, v] with v in units of 1/Scale
    rdefault,  \* row: missing_snow_depth, "None" or "zero"
    rstage,    \* row: "input" or "read"
    rflag,     \* row: whether the value was taken as missing
    rkept,     \* row: whether the row goes on after this value
    rstored,   \* row: what is kept for the column
    edata,     \* extract: per grid point, the time steps at which it has data
    estage,    \* extract: "input" or "extracted"
    esel,      \* extract: the grid point .sel(method="nearest") gave
    epoint,    \* extract: the grid point the rows are taken from
    erows,     \* extract: the rows passed on, [pt, t]
    eerr,      \* extract: the exception raised, or "none"
    lcol,      \* label: the column, a sequence of values
    lstage,    \* label: "input" or "done"
    lresult,   \* label: the list returned
    lerr,      \* label: the exception raised, or "none"
    tref,      \* tile: the two references given, strings
    trcp,      \* tile: the scenario of each
    tens,      \* tile: the ensemble member of each
    tstage,    \* tile: "input" or "named"
    tids,      \* tile: the identifiers made for each
    pclock,    \* parcel: the time of the file system
    pcsv,      \* parcel: the CSV file, [kind, mtime, ver]
    pcache,    \* parcel: the cache file, [kind, mtime, ver]
    pcalls,    \* parcel: constructions so far
    pcall      \* parcel: the last construction: what it found and what it did

cacheVars == <<now, ticks, calls, cache, archive, dtm, provider, prev>>

codecVars == <<stage, coords, figs, gridref, err, decoded>>

parseVars == <<text, cellsize, pstage, perr, point, berr, box>>

buildVars == <<nstage, years, frame, missing, bad, store, pickled, berror>>

rowVars == <<rprov, rlabel, rvalue, rdefault, rstage, rflag, rkept, rstored>>

extractVars == <<edata, estage, esel, epoint, erows, eerr>>

labelVars == <<lcol, lstage, lresult, lerr>>

tileVars == <<tref, trcp, tens, tstage, tids>>

parcelVars == <<pclock, pcsv, pcache, pcalls, pcall>>

vars == <<cacheVars, codecVars, parseVars, buildVars, rowVars, extractVars, labelVars, tileVars, parcelVars>>

\* what the steps of the weather cache leave alone
notCache == <<codecVars, parseVars, buildVars, rowVars, extractVars, labelVars, tileVars, parcelVars>>

\* what the steps of the codec leave alone
notCodec == <<cacheVars, parseVars, buildVars, rowVars, extractVars, labelVars, tileVars, parcelVars>>

\* what the steps of the reference parsers leave alone
notParse == <<cacheVars, codecVars, buildVars, rowVars, extractVars, labelVars, tileVars, parcelVars>>

\* what the steps of a build leave alone
notBuild == <<cacheVars, codecVars, parseVars, rowVars, extractVars, labelVars, tileVars, parcelVars>>

\* what the reading of one value leaves alone
notRow == <<cacheVars, codecVars, parseVars, buildVars, extractVars, labelVars, tileVars, parcelVars>>

\* what the steps of this part leave alone
notExtract == <<cacheVars, codecVars, parseVars, buildVars, rowVars, labelVars, tileVars, parcelVars>>

\* what the steps of this part leave alone
notLabel == <<cacheVars, codecVars, parseVars, buildVars, rowVars, extractVars, tileVars, parcelVars>>

\* what the steps of this part leave alone
notTile == <<cacheVars, codecVars, parseVars, buildVars, rowVars, extractVars, labelVars, parcelVars>>

\* what the steps of this part leave alone
notParcel == <<cacheVars, codecVars, parseVars, buildVars, rowVars, extractVars, labelVars, tileVars>>

(***************************************************************************)
(* The cache file.  kind is what a reader finds:                           *)
(*   "absent"      os.path.exists is false                                 *)
(*   "ok"          a complete pickle of a provider's store                 *)
(*   "empty"       opened for writing ("wb" truncates), nothing written    *)
(*   "corrupt"     bytes that do not unpickle (pickle.UnpicklingError)     *)
(*   "unreadable"  open() fails (an IOError)                               *)
(* series is the stored weather series, named by the archive version it    *)
(* was built from (0: none); mtime is the file's modification day.         *)
(***************************************************************************)
NoFile == [kind |-> "absent", series |-> 0, mtime |-> 0]

CacheFile(k, s, m) == [kind |-> k, series |-> s, mtime |-> m]

\* the archive file: kind is "absent", "corrupt" (it exists and cannot be read
\* as a dataset) or "good"; ver names its content (0: none)
Archive(k, v) == [kind |-> k, ver |-> v]

\* what CheckCache found: the file and its age on that day
NoSnap == [kind |-> "none", series |-> 0, mtime |-> 0, age |-> 0]

NoPrev == [status |-> "none", store |-> 0, builds |-> 0, degraded |-> FALSE]

Idle ==
    [pc |-> "idle", force |-> FALSE, branch |-> "none", snap |-> NoSnap,
     builds |-> 0, built |-> 0, raised |-> "none", store |-> 0,
     status |-> "none", degraded |-> FALSE, quiet |-> TRUE, pred |-> NoPrev]

\* the cache files a run can start with: none, or one written 89 or 90
\* days ago that is complete, damaged or unreadable
InitialCaches ==
    {NoFile} \cup
    {CacheFile(k, IF k = "ok" THEN 1 ELSE 0, m) :
        k \in {"ok", "corrupt", "unreadable"},
        m \in {0 - MaxAgeDays, 1 - MaxAgeDays}}

CacheInit ==
    /\ now = 0
    /\ ticks = 0
    /\ calls = 0
    /\ cache \in InitialCaches
    /\ archive \in {Archive("absent", 0), Archive("corrupt", 0), Archive("good", 1)}
    /\ dtm \in {"up", "down"}
    /\ provider = [p \in Callers |-> Idle]
    /\ prev = NoPrev

(***************************************************************************)
(* Helpers of the constructor.                                             *)
(***************************************************************************)
MutFindCacheFileNever(f) == FALSE

\* _find_cache_file: the path when the file exists, else None
FindCacheFile(f) == f.kind # "absent"

\* age of the cache file in whole days
Age(f, today) == today - f.mtime

MutIsFreshOffByOneLow(age) == age < MaxAgeDays - 1

MutIsFreshInclusive(age) == age <= MaxAgeDays

\* "if age < 90"
IsFresh(age) == age < MaxAgeDays

\* WeatherDataProvider._load on the file: what open() and pickle.load do
LoadRaises(f) ==
    CASE f.kind = "ok" -> "none"
      [] f.kind = "absent" -> "IOError"
      [] f.kind = "unreadable" -> "IOError"
      [] f.kind = "empty" -> "EOFError"
      [] OTHER -> "UnpicklingError"

\* the exceptions _load_cache_file catches
LoadCaught == {"IOError", "EOFError"}

\* what opening and reading the archive raises
BuildRaises(a) ==
    CASE a.kind = "absent" -> "FileNotFoundError"
      [] a.kind = "corrupt" -> "ValueError"
      [] OTHER -> "none"

\* the except clause around the rebuild of a stale entry
RebuildCaught == {"FileNotFoundError"}

Set(p, r) == provider' = [provider EXCEPT ![p] = r]

Raise(p, exc) ==
    Set(p, [provider[p] EXCEPT !.pc = "done", !.status = exc])

(***************************************************************************)
(* NetCDFWeatherDataProvider.__init__, one step per file-system or         *)
(* database operation.                                                     *)
(***************************************************************************)
Call(p, f) ==
    /\ provider[p].pc = "idle"
    /\ calls < MaxCalls
    /\ calls' = calls + 1
    /\ Set(p, [Idle EXCEPT !.pc = "locate", !.force = f, !.pred = prev])
    /\ prev' = NoPrev
    /\ UNCHANGED <<now, ticks, cache, archive, dtm, notCache>>

\* the archive of the 10 km tile must exist
Locate(p) ==
    /\ provider[p].pc = "locate"
    /\ IF archive.kind = "absent"
          THEN Raise(p, "PCSEError")
          ELSE Set(p, [provider[p] EXCEPT !.pc = "terrain"])
    /\ UNCHANGED <<now, ticks, calls, cache, archive, dtm, prev, notCache>>

\* get_dtm_values(...)["elevation"]: None is returned when the database fails
Terrain(p) ==
    /\ provider[p].pc = "terrain"
    /\ IF dtm = "down"
          THEN Raise(p, "TypeError")
          ELSE Set(p, [provider[p] EXCEPT !.pc = "check"])
    /\ UNCHANGED <<now, ticks, calls, cache, archive, dtm, prev, notCache>>

\* the three-way decision on the cache file
CheckCache(p) ==
    /\ provider[p].pc = "check"
    /\ LET seen == [kind |-> cache.kind, series |-> cache.series,
                    mtime |-> cache.mtime,
                    age |-> IF FindCacheFile(cache) THEN Age(cache, now) ELSE 0]
       IN  IF ~FindCacheFile(cache) \/ provider[p].force
              THEN Set(p, [provider[p] EXCEPT
                              !.pc = "build", !.branch = "miss", !.snap = seen])
              ELSE IF IsFresh(Age(cache, now))
                      THEN Set(p, [provider[p] EXCEPT
                              !.pc = "load", !.branch = "fresh", !.snap = seen])
                      ELSE Set(p, [provider[p] EXCEPT
                              !.pc = "build", !.branch = "stale", !.snap = seen])
    /\ UNCHANGED <<now, ticks, calls, cache, archive, dtm, prev, notCache>>

\* age < 90: load the cache file, rebuild when loading returns False
LoadFresh(p) ==
    /\ provider[p].pc = "load"
    /\ LET exc == LoadRaises(cache)
       IN  IF exc = "none"
              THEN Set(p, [provider[p] EXCEPT
                              !.pc = "done", !.status = "ok", !.store = cache.series])
              ELSE IF exc \in LoadCaught
                      THEN Set(p, [provider[p] EXCEPT !.pc = "build"])
                      ELSE Raise(p, exc)
    /\ UNCHANGED <<now, ticks, calls, cache, archive, dtm, prev, notCache>>

\* _get_and_process_chessscape up to _read_observations
Build(p) ==
    /\ provider[p].pc = "build"
    /\ LET exc == BuildRaises(archive)
           me == [provider[p] EXCEPT !.builds = @ + 1]
       IN  IF exc = "none"
              THEN Set(p, [me EXCEPT !.pc = "dump", !.built = archive.ver,
                                     !.store = archive.ver])
              ELSE IF me.branch = "stale" /\ exc \in RebuildCaught
                      THEN Set(p, [me EXCEPT !.pc = "fallback", !.raised = exc,
                                             !.degraded = TRUE])
                      ELSE Set(p, [me EXCEPT !.pc = "done", !.raised = exc,
                                             !.status = exc])
    /\ UNCHANGED <<now, ticks, calls, cache, archive, dtm, prev, notCache>>

\* the rebuild of a stale entry failed: revert to the outdated cache file
LoadFallback(p) ==
    /\ provider[p].pc = "fallback"
    /\ LET exc == LoadRaises(cache)
       IN  IF exc = "none"
              THEN Set(p, [provider[p] EXCEPT
                              !.pc = "done", !.status = "ok", !.store = cache.series])
              ELSE IF exc \in LoadCaught
                      THEN Raise(p, "PCSEError")
                      ELSE Raise(p, exc)
    /\ UNCHANGED <<now, ticks, calls, cache, archive, dtm, prev, notCache>>

\* _dump: open(cache_fname, "wb") truncates the file in place
DumpOpen(p) ==
    /\ provider[p].pc = "dump"
    /\ cache' = CacheFile("empty", 0, now)
    /\ Set(p, [provider[p] EXCEPT !.pc = "write"])
    /\ UNCHANGED <<now, ticks, calls, archive, dtm, prev, notCache>>

MutDumpedNothing(series, today) == CacheFile("empty", 0, today)

\* the file once pickle.dump has written the store and the file is closed
Dumped(series, today) == CacheFile("ok", series, today)

\* _dump: pickle.dump and close
DumpWrite(p) ==
    /\ provider[p].pc = "write"
    /\ cache' = Dumped(provider[p].store, now)
    /\ Set(p, [provider[p] EXCEPT !.pc = "done", !.status = "ok"])
    /\ UNCHANGED <<now, ticks, calls, archive, dtm, prev, notCache>>

\* the constructor returns or raises; the next caller may follow
Return(p) ==
    /\ provider[p].pc = "done"
    /\ prev' = IF provider[p].force \/ ~provider[p].quiet
                  THEN NoPrev
                  ELSE [status |-> provider[p].status, store |-> provider[p].store,
                        builds |-> provider[p].builds,
                        degraded |-> provider[p].degraded]
    /\ Set(p, Idle)
    /\ UNCHANGED <<now, ticks, calls, cache, archive, dtm, notCache>>

\* the caller abandons the construction (the process is interrupted)
Abandon(p) ==
    /\ provider[p].pc \notin {"idle", "done"}
    /\ Set(p, Idle)
    /\ prev' = NoPrev
    /\ UNCHANGED <<now, ticks, calls, cache, archive, dtm, notCache>>

(***************************************************************************)
(* The environment: the clock and the archive directory.  A change of      *)
(* either during a construction (quiet) or between two of them (prev) ends *)
(* the "in succession, no archive change" of two calls.                    *)
(***************************************************************************)
Disturbed ==
    [p \in Callers |->
        IF provider[p].pc = "idle"
           THEN provider[p]
           ELSE [provider[p] EXCEPT !.quiet = FALSE, !.pred = NoPrev]]

Tick(d) ==
    /\ ticks < MaxTicks
    /\ ticks' = ticks + 1
    /\ now' = now + d
    /\ provider' = Disturbed
    /\ prev' = NoPrev
    /\ UNCHANGED <<calls, cache, archive, dtm, notCache>>

ArchiveRemove ==
    /\ archive.kind # "absent"
    /\ archive' = Archive("absent", 0)
    /\ provider' = Disturbed
    /\ prev' = NoPrev
    /\ UNCHANGED <<now, ticks, calls, cache, dtm, notCache>>

ArchiveUpdate ==
    /\ archive.kind = "good"
    /\ archive.ver < MaxVer
    /\ archive' = Archive("good", archive.ver + 1)
    /\ provider' = Disturbed
    /\ prev' = NoPrev
    /\ UNCHANGED <<now, ticks, calls, cache, dtm, notCache>>

(***************************************************************************)
(* The grid codec of ukwofost/utils.py.  A projected coordinate is a float *)
(* in the source; here it is a whole number of 1/Grain metres, so that a   *)
(* point can lie inside a 1 m cell.                                        *)
(***************************************************************************)
RegionRows ==
    << <<"HL", "HM", "HN", "HO", "HP", "JL", "JM">>,
       <<"HQ", "HR", "HS", "HT", "HU", "JQ", "JR">>,
       <<"HV", "HW", "HX", "HY", "HZ", "JV", "JW">>,
       <<"NA", "NB", "NC", "ND", "NE", "OA", "OB">>,
       <<"NF", "NG", "NH", "NJ", "NK", "OF", "OG">>,
       <<"NL", "NM", "NN", "NO", "NP", "OL", "OM">>,
       <<"NQ", "NR", "NS", "NT", "NU", "OQ", "OR">>,
       <<"NV", "NW", "NX", "NY", "NZ", "OV", "OW">>,
       <<"SA", "SB", "SC", "SD", "SE", "TA", "TB">>,
       <<"SF", "SG", "SH", "SJ", "SK", "TF", "TG">>,
       <<"SL", "SM", "SN", "SO", "SP", "TL", "TM">>,
       <<"SQ", "SR", "SS", "ST", "SU", "TQ", "TR">>,
       <<"SV", "SW", "SX", "SY", "SZ", "TV", "TW">> >>

\* rows of the table (northings) and entries of a row (eastings)
NRows == Len(RegionRows)

NCols == Len(RegionRows[1])

\* side of a region, in metres
RegionSide == 100000

\* _regions[i][j] after list(zip(*regions[::-1])): i counts regions eastwards,
\* j northwards, both from 0; outside the table the lookup is an IndexError
InTable(i, j) == i \in 0..(NCols - 1) /\ j \in 0..(NRows - 1)

Regions(i, j) == RegionRows[NRows - j][i + 1]

\* the keys of _offset_map
RegionCodes == {Regions(i, j) : i \in 0..(NCols - 1), j \in 0..(NRows - 1)}

\* _offset_map[region], in metres
OffsetMap(region) ==
    LET ij == CHOOSE ij \in (0..(NCols - 1)) \X (0..(NRows - 1)) :
                  Regions(ij[1], ij[2]) = region
    IN  <<RegionSide * ij[1], RegionSide * ij[2]>>

Letters ==
    {"A", "B", "C", "D", "E", "F", "G", "H", "I", "J", "K", "L", "M",
     "N", "O", "P", "Q", "R", "S", "T", "U", "V", "W", "X", "Y", "Z"}

DigitChars == <<"0", "1", "2", "3", "4", "5", "6", "7", "8", "9">>

IsDigit(c) == \E k \in 1..Len(DigitChars) : DigitChars[k] = c

\* int() of one digit character
DigitValue(c) == (CHOOSE k \in 1..Len(DigitChars) : DigitChars[k] = c) - 1

\* the two characters of a region code
CodeChars(region) ==
    CHOOSE cs \in Letters \X Letters : cs[1] \o cs[2] = region

RECURSIVE FormatInt(_)
\* "{}".format(n) for n >= 0: the decimal digits, most significant first
FormatInt(n) ==
    IF n < 10
       THEN <<DigitChars[n + 1]>>
       ELSE FormatInt(n \div 10) \o <<DigitChars[(n % 10) + 1]>>

RECURSIVE ZeroPad(_, _)
\* zeros on the left of the digits up to width w, never a cut
ZeroPad(ds, w) == IF Len(ds) >= w THEN ds ELSE ZeroPad(<<"0">> \o ds, w)

\* "{:0w}".format(n) for any int: the sign comes first and counts in the width
FormatPadded(n, w) ==
    IF n < 0
       THEN <<"-">> \o ZeroPad(FormatInt(0 - n), w - 1)
       ELSE ZeroPad(FormatInt(n), w)

RECURSIVE ParseInt(_)
\* int() of a string of digits
ParseInt(ds) ==
    IF ds = <<>>
       THEN 0
       ELSE 10 * ParseInt(SubSeq(ds, 1, Len(ds) - 1)) + DigitValue(ds[Len(ds)])

RECURSIVE Pow10(_)
Pow10(k) == IF k = 0 THEN 1 ELSE 10 * Pow10(k - 1)

\* the keys of templates and factors
ValidFigs == {4, 6, 8, 10}

\* factors[figs], in metres
Factor(f) == Pow10(5 - f \div 2)

\* templates[figs]: the width of each digit group
Width(f) == f \div 2

\* Transformer.transform gives inf for a position it cannot project; inf is
\* modelled as a number above every coordinate tried
Inf == 1000000000

IsInf(v) == v >= Inf

MutRoundDiv(num, den) == (2 * num + den) \div (2 * den)

MutCeilDiv(num, den) == (num + den - 1) \div den

\* int(floor(num / den)) for den > 0
FloorDiv(num, den) == num \div den

\* lonlat2osgrid after the transform to EPSG:27700: the reference of the
\* projected point <<x, y>>, or the BNGError raised
Lonlat2osgrid(xy, f) ==
    LET x == xy[1]
        y == xy[2]
        i == FloorDiv(x, RegionSide * Grain)
        j == FloorDiv(y, RegionSide * Grain)
    IN  IF x < 0 \/ y < 0
           THEN [err |-> "BNGError", ref |-> <<>>]
           ELSE IF IsInf(x) \/ IsInf(y)
                   \* int(floor(inf)): not an IndexError, so it is not caught
                   THEN [err |-> "OverflowError", ref |-> <<>>]
           ELSE IF ~InTable(i, j)
                   THEN [err |-> "BNGError", ref |-> <<>>]
                   ELSE IF f \notin ValidFigs
                           THEN [err |-> "BNGError", ref |-> <<>>]
                           ELSE LET region == Regions(i, j)
                                    off == OffsetMap(region)
                                    cs == CodeChars(region)
                                    e == FloorDiv(x - off[1] * Grain, Factor(f) * Grain)
                                    n == FloorDiv(y - off[2] * Grain, Factor(f) * Grain)
                                IN  [err |-> "none",
                                     ref |-> <<cs[1], cs[2]>>
                                             \o FormatPadded(e, Width(f))
                                             \o FormatPadded(n, Width(f))]

UpperCase ==
    <<"A", "B", "C", "D", "E", "F", "G", "H", "I", "J", "K", "L", "M",
      "N", "O", "P", "Q", "R", "S", "T", "U", "V", "W", "X", "Y", "Z">>

LowerCase ==
    <<"a", "b", "c", "d", "e", "f", "g", "h", "i", "j", "k", "l", "m",
      "n", "o", "p", "q", "r", "s", "t", "u", "v", "w", "x", "y", "z">>

\* str.upper(), character by character
Upper(s) ==
    [k \in 1..Len(s) |->
        IF \E a \in 1..Len(LowerCase) : LowerCase[a] = s[k]
           THEN UpperCase[CHOOSE a \in 1..Len(LowerCase) : LowerCase[a] = s[k]]
           ELSE s[k]]

\* what a pattern ending in $ matches up to: $ is the end of the string or
\* the place before a newline that ends the string
BeforeNewline(s) ==
    IF Len(s) > 0 /\ s[Len(s)] = "\n" THEN SubSeq(s, 1, Len(s) - 1) ELSE s

\* ^([A-Z]{2})(\d{a}|\d{b}|...)$ with the digit counts in lens
MatchesPattern(s, lens) ==
    LET body == BeforeNewline(s)
    IN  /\ Len(body) - 2 \in lens
        /\ body[1] \in Letters
        /\ body[2] \in Letters
        /\ \A k \in 3..Len(body) : IsDigit(body[k])

\* the pattern ^([A-Z]{2})(\d{4}|\d{6}|\d{8}|\d{10})$
MatchesGridref(s) == MatchesPattern(s, ValidFigs)

\* osgrid2lonlat with epsg=None: the point in metres, or the BNGError raised
Osgrid2lonlat(s) ==
    IF ~MatchesGridref(Upper(s))
       THEN [err |-> "BNGError", xy |-> <<0, 0>>]
       ELSE LET body == BeforeNewline(Upper(s))
                region == body[1] \o body[2]
                digits == SubSeq(body, 3, Len(body))
                half == Len(digits) \div 2
            IN  IF region \notin RegionCodes
                   THEN [err |-> "BNGError", xy |-> <<0, 0>>]
                   ELSE LET easting == ParseInt(SubSeq(digits, 1, half))
                            northing == ParseInt(SubSeq(digits, half + 1, Len(digits)))
                            scale == Pow10(5 - half)
                            off == OffsetMap(region)
                        IN  [err |-> "none",
                             xy |-> <<easting * scale + off[1],
                                      northing * scale + off[2]>>]

\* metres, with a fraction, of the points tried
MetresX == {-1, 0, 1, 999, 1000, 99999, 100000, 327550, 654321, 699999, 700000}

MetresY == {-1, 0, 999, 99999, 100000, 672950, 1234567, 1299999, 1300000}

Points ==
    {<<mx * Grain + fx, my * Grain + fy>> :
        mx \in MetresX, my \in MetresY, fx \in {0, Grain - 1}, fy \in {0, Grain - 1}}
    \cup {<<Inf, Inf>>}

CodecIdle ==
    /\ stage = "input"
    /\ coords = <<0, 0>>
    /\ figs = 4
    /\ gridref = <<>>
    /\ err = "none"
    /\ decoded = <<0, 0>>

CodecInit ==
    /\ stage = "input"
    /\ coords \in Points
    /\ figs \in ValidFigs \cup {5}
    /\ gridref = <<>>
    /\ err = "none"
    /\ decoded = <<0, 0>>

Encode ==
    /\ stage = "input"
    /\ LET r == Lonlat2osgrid(coords, figs)
       IN  gridref' = r.ref /\ err' = r.err
    /\ stage' = "encoded"
    /\ UNCHANGED <<coords, figs, decoded, notCodec>>

Decode ==
    /\ stage = "encoded"
    /\ err = "none"
    /\ LET r == Osgrid2lonlat(gridref)
       IN  decoded' = r.xy /\ err' = r.err
    /\ stage' = "decoded"
    /\ UNCHANGED <<coords, figs, gridref, notCodec>>

\* the dictionary of osgrid2bbox
Box(x, y, side) == [xmin |-> x, xmax |-> x + side, ymin |-> y, ymax |-> y + side]

NoBox == Box(0, 0, 0)

\* side of the cell of os_cellsize "10km", in metres
TenKm == 10000

\* osgrid2bbox: the box in metres, or the BNGError raised
Osgrid2bbox(s, cell) ==
    LET u == Upper(s)
        body == BeforeNewline(u)
        failed == [err |-> "BNGError", box |-> NoBox]
    IN  IF cell = "10km"
           THEN IF ~MatchesPattern(u, {2} \cup ValidFigs)
                   THEN failed
                   ELSE LET region == body[1] \o body[2]
                            \* coords[0:2], then split in halves
                            pair == SubSeq(body, 3, 4)
                            half == Len(pair) \div 2
                        IN  IF region \notin RegionCodes
                               THEN failed
                               ELSE LET easting == ParseInt(SubSeq(pair, 1, half))
                                        northing == ParseInt(SubSeq(pair, half + 1, Len(pair)))
                                        scale == Pow10(5 - half)
                                        off == OffsetMap(region)
                                    IN  [err |-> "none",
                                         box |-> Box(easting * scale + off[1],
                                                     northing * scale + off[2],
                                                     TenKm)]
           ELSE IF cell = "100km"
                   \* the pattern ^([A-Z]{2}), nothing asked of what follows
                   THEN IF ~(Len(u) >= 2 /\ u[1] \in Letters /\ u[2] \in Letters)
                           THEN failed
                           ELSE LET region == u[1] \o u[2]
                                IN  IF region \notin RegionCodes
                                       THEN failed
                                       ELSE [err |-> "none",
                                             box |-> Box(OffsetMap(region)[1],
                                                         OffsetMap(region)[2],
                                                         RegionSide)]
                   ELSE failed

\* the strings tried: a region part, a payload, and what ends the string
Prefixes ==
    { <<"N", "T">>, <<"S", "J">>, <<"H", "U">>, <<"S", "V">>, <<"J", "M">>,
      <<"n", "t">>, <<"Z", "Z">>, <<"N", "1">>, <<"N">> }

Payloads ==
    { <<>>,
      <<"2", "7">>,
      <<"2", "7", "5">>,
      <<"2", "7", "7", "2">>,
      <<"2", "7", "a", "2">>,
      <<"6", "3", "7", "5", "6", "0">>,
      <<"0", "0", "9", "9", "0", "0", "0", "1">>,
      <<"2", "7", "5", "5", "0", "7", "2", "9", "5", "0">>,
      <<"2", "7", "5", "5", "0", "7", "2", "9", "5", "0", "1">>,
      <<"1", "2", "3", "4", "5", "6", "7", "8", "9", "0", "1", "2">> }

Endings == { <<>>, <<"\n">>, <<" ">> }

Texts == {a \o b \o c : a \in Prefixes, b \in Payloads, c \in Endings}

CellSizes == {"10km", "100km", "1km"}

ParseIdle ==
    /\ text = <<>>
    /\ cellsize = "10km"
    /\ pstage = "input"
    /\ perr = "none"
    /\ point = <<0, 0>>
    /\ berr = "none"
    /\ box = NoBox

ParseInit ==
    /\ text \in Texts
    /\ cellsize \in CellSizes
    /\ pstage = "input"
    /\ perr = "none"
    /\ point = <<0, 0>>
    /\ berr = "none"
    /\ box = NoBox

\* osgrid2lonlat(text)
DecodeText ==
    /\ pstage = "input"
    /\ LET r == Osgrid2lonlat(text)
       IN  point' = r.xy /\ perr' = r.err
    /\ pstage' = "point"
    /\ UNCHANGED <<text, cellsize, berr, box, notParse>>

\* osgrid2bbox(text, cellsize)
BoundingBox ==
    /\ pstage = "point"
    /\ LET r == Osgrid2bbox(text, cellsize)
       IN  box' = r.box /\ berr' = r.err
    /\ pstage' = "box"
    /\ UNCHANGED <<text, cellsize, perr, point, notParse>>

(***************************************************************************)
(* The build of a series: _get_and_process_chessscape from the conversion  *)
(* of the 360-day calendar on.  A date is its proleptic Gregorian ordinal  *)
(* (date.toordinal()); the values of a row are named by the position of    *)
(* the source row they come from.                                          *)
(***************************************************************************)
IsLeap(y) == y % 4 = 0 /\ (y % 100 # 0 \/ y % 400 = 0)

\* days of the months of a year
MonthLengths(y) ==
    <<31, IF IsLeap(y) THEN 29 ELSE 28, 31, 30, 31, 30, 31, 31, 30, 31, 30, 31>>

RECURSIVE DaysBeforeMonth(_, _)
DaysBeforeMonth(y, m) ==
    IF m = 1 THEN 0 ELSE DaysBeforeMonth(y, m - 1) + MonthLengths(y)[m - 1]

\* days before the first of January of year y
DaysBeforeYear(y) ==
    LET p == y - 1 IN 365 * p + p \div 4 - p \div 100 + p \div 400

\* date(y, m, d).toordinal()
ToOrdinal(y, m, d) == DaysBeforeYear(y) + DaysBeforeMonth(y, m) + d

\* date.fromordinal(n) for n within year 1: its month and day
FromOrdinal(n) ==
    LET m == CHOOSE k \in 1..12 :
                 DaysBeforeMonth(1, k) < n /\ n <= DaysBeforeMonth(1, k) + MonthLengths(1)[k]
    IN  [month |-> m, day |-> n - DaysBeforeMonth(1, m)]

MutDoyInYear(year, dayofyr) == DaysBeforeYear(year) + dayofyr

\* calc_doy: the day of the year read in year 1, then moved to the year
CalcDoy(year, dayofyr) ==
    LET doy == FromOrdinal(dayofyr) IN ToOrdinal(year, doy.month, doy.day)

\* days of a year of the source calendar
SourceDays == 360

Abs(n) == IF n < 0 THEN 0 - n ELSE n

RECURSIVE LeastDistance(_, _, _)
\* the least abs(x - item) over the values, searched upwards from n
LeastDistance(valuelist, item, n) ==
    IF \E k \in 1..Len(valuelist) : Abs(valuelist[k] - item) = n
       THEN n
       ELSE LeastDistance(valuelist, item, n + 1)

\* min(valuelist, key=...): the position of the first value at the least
\* distance
FirstMin(valuelist, item) ==
    LET least == LeastDistance(valuelist, item, 0)
    IN  CHOOSE k \in 1..Len(valuelist) :
            /\ Abs(valuelist[k] - item) = least
            /\ \A j \in 1..(k - 1) : Abs(valuelist[j] - item) # least

\* the last value at the least distance instead of the first
MutNearestLast(item, valuelist) ==
    LET least == LeastDistance(valuelist, item, 0)
    IN  valuelist[CHOOSE k \in 1..Len(valuelist) :
                      /\ Abs(valuelist[k] - item) = least
                      /\ \A j \in (k + 1)..Len(valuelist) : Abs(valuelist[j] - item) # least]

\* nearest(item, valuelist)
Nearest(item, valuelist) == valuelist[FirstMin(valuelist, item)]

Row(day, val) == [DAY |-> day, VAL |-> val]

\* os_dataframe.index
Index(f) == [k \in 1..Len(f) |-> f[k].DAY]

\* os_dataframe.loc[day, :]
Loc(f, day) == f[CHOOSE k \in 1..Len(f) : f[k].DAY = day]

\* the frame after line 275: row k of the source, its day converted
Converted(ys) ==
    [k \in 1..(SourceDays * Len(ys)) |->
        Row(CalcDoy(ys[((k - 1) \div SourceDays) + 1], ((k - 1) % SourceDays) + 1), k)]

\* pd.date_range(index[0], index[-1], freq="D")
DateRange(f) == f[1].DAY .. f[Len(f)].DAY

\* one turn of the loop over missing_days
Filled(f, day) == Append(f, Row(day, Loc(f, Nearest(day, Index(f))).VAL))

MutNoSort(f) == f

\* sort_index(ascending=True)
SortIndex(f) == SortSeq(f, LAMBDA a, b : a.DAY < b.DAY)

\* no cache file written
NotPickled == [written |-> FALSE, store |-> {}]

\* the values that fail: rows with a required value equal to nodata_value
\* or refused by reference_ET, a ValueError; none, one at the start, in
\* the middle or at the end of a year, or all
BadRows(ys) ==
    { {}, {1}, {59}, {SourceDays}, 1..(SourceDays * Len(ys)) }

\* the store after the loop over the rows: a row that raises ValueError is
\* logged and skipped, the others are stored under their day
Stored(f, b) == {f[k] : k \in {j \in 1..Len(f) : f[j].VAL \notin b}}

\* the years of the source series tried
SourceYears == { <<2020>>, <<2021>>, <<2100>>, <<2019, 2020>>, <<2020, 2021>> }

BuildIdle ==
    /\ nstage = "source"
    /\ years = <<>>
    /\ frame = <<>>
    /\ missing = {}
    /\ bad = {}
    /\ store = {}
    /\ pickled = NotPickled
    /\ berror = "none"

BuildInit ==
    /\ nstage = "source"
    /\ years \in SourceYears
    /\ frame = <<>>
    /\ missing = {}
    /\ bad = {}
    /\ store = {}
    /\ pickled = NotPickled
    /\ berror = "none"

\* calc_doy on every row, set_index, missing_days
Convert ==
    /\ nstage = "source"
    /\ years # <<>>
    /\ frame' = Converted(years)
    /\ missing' = DateRange(frame') \ {frame'[k].DAY : k \in 1..Len(frame')}
    /\ nstage' = "fill"
    /\ UNCHANGED <<years, bad, store, pickled, berror, notBuild>>

\* one turn of the loop, for any day still to visit: missing_days is the
\* list of a set, in the order of the hashes of its dates
Fill(day) ==
    /\ nstage = "fill"
    /\ day \in missing
    /\ frame' = Filled(frame, day)
    /\ missing' = missing \ {day}
    /\ UNCHANGED <<nstage, years, bad, store, pickled, berror, notBuild>>

\* the end of the loop, sort_index
Sort ==
    /\ nstage = "fill"
    /\ missing = {}
    /\ frame' = SortIndex(frame)
    /\ nstage' = "sorted"
    /\ UNCHANGED <<years, missing, bad, store, pickled, berror, notBuild>>

\* what a failing row raises: ValueError (a missing required value, a
\* value float() or math refuses), or an exception of another class (e.g.
\* the PCSEError of WeatherDataContainer for a value out of its range)
RowErrors == {"ValueError", "PCSEError"}

\* except ValueError
ReadCaught == {"ValueError"}

\* the rows of the frame whose values fail
Failing(f, b) == {k \in 1..Len(f) : f[k].VAL \in b}

\* the store when the loop is left at the first failing row
StoredBefore(f, b) ==
    {f[k] : k \in {j \in 1..Len(f) : \A i \in Failing(f, b) : j < i}}

\* _read_observations on the sorted frame, for the rows b that fail with
\* exception exc
ReadObservations(b, exc) ==
    /\ nstage = "sorted"
    /\ bad' = b
    /\ IF exc \in ReadCaught \/ Failing(frame, b) = {}
          THEN /\ store' = Stored(frame, b)
               /\ nstage' = "read"
               /\ berror' = "none"
          ELSE /\ store' = StoredBefore(frame, b)
               /\ nstage' = "failed"
               /\ berror' = exc
    /\ UNCHANGED <<years, frame, missing, pickled, notBuild>>

\* self._dump(cache_filename), then the constructor returns
Dump ==
    /\ nstage = "read"
    /\ pickled' = [written |-> TRUE, store |-> store]
    /\ nstage' = "dumped"
    /\ UNCHANGED <<years, frame, missing, bad, store, berror, notBuild>>

(***************************************************************************)
(* One value of one row in _read_observations.  A float is [nan, v]: nan   *)
(* or the number v / Scale.                                                *)
(***************************************************************************)
Scale == 100000

\* eps = 0.0001, in units of 1/Scale
Eps == 10

Number(v) == [nan |-> FALSE, v |-> v]

NaN == [nan |-> TRUE, v |-> 0]

\* nodata_value of the provider, in units of 1/Scale
NodataValue(prov) == IF prov = "netcdf" THEN (0 - 999) * Scale ELSE (0 - 99) * Scale

\* abs(value - self.nodata_value) < eps; a comparison with nan is false
IsMissingValue(value, nodata) ==
    ~value.nan /\ Abs(value.v - nodata) < Eps

\* the keys of obs_conversions
Labels == {"TMAX", "TMIN", "IRRAD", "VAP", "WIND", "RAIN", "SNOWDEPTH"}

\* math.isnan(func(value)): every function of obs_conversions is x, x + c,
\* x * c or x / c, which gives nan for nan only
ConvertedIsNan(label, value) == value.nan

\* the part of NetCDFWeatherDataProvider._read_observations for one column
NetCDFReadValue(label, value, default) ==
    IF IsMissingValue(value, NodataValue("netcdf"))
       THEN IF label = "SNOWDEPTH"
               THEN [flag |-> TRUE, kept |-> TRUE, stored |-> default]
               ELSE [flag |-> TRUE, kept |-> FALSE, stored |-> "nothing"]
       ELSE [flag |-> FALSE, kept |-> TRUE, stored |-> "converted"]

\* the part of ParcelWeatherDataProvider._read_observations for one column:
\* nodata_value is set in __init__ and not read here
ParcelReadValue(label, value) ==
    IF ConvertedIsNan(label, value)
       THEN IF label = "SNOWDEPTH"
               THEN [flag |-> TRUE, kept |-> TRUE, stored |-> "absent"]
               ELSE [flag |-> TRUE, kept |-> FALSE, stored |-> "nothing"]
       ELSE [flag |-> FALSE, kept |-> TRUE, stored |-> "converted"]

\* the values tried, by their distance from the provider's nodata_value
NearNodata == {0 - Eps, 1 - Eps, 0 - 1, 0, 1, Eps - 1, Eps}

Values(prov) ==
    {Number(NodataValue(prov) + d) : d \in NearNodata}
    \cup {Number(0), Number(12 * Scale), NaN}

RowIdle ==
    /\ rprov = "netcdf"
    /\ rlabel = "TMAX"
    /\ rvalue = Number(0)
    /\ rdefault = "None"
    /\ rstage = "input"
    /\ rflag = FALSE
    /\ rkept = TRUE
    /\ rstored = "nothing"

RowInit ==
    /\ rprov \in {"netcdf", "parcel"}
    /\ rlabel \in Labels
    /\ rvalue \in Values(rprov)
    /\ rdefault \in {"None", "zero"}
    /\ rstage = "input"
    /\ rflag = FALSE
    /\ rkept = TRUE
    /\ rstored = "nothing"

Read(r) ==
    /\ rflag' = r.flag
    /\ rkept' = r.kept
    /\ rstored' = r.stored
    /\ rstage' = "read"
    /\ UNCHANGED <<rprov, rlabel, rvalue, rdefault, notRow>>

NetCDFRead ==
    /\ rstage = "input"
    /\ rprov = "netcdf"
    /\ Read(NetCDFReadValue(rlabel, rvalue, rdefault))

ParcelRead ==
    /\ rstage = "input"
    /\ rprov = "parcel"
    /\ Read(ParcelReadValue(rlabel, rvalue))

(***************************************************************************)
(* The extraction of the rows of one grid point of the dataset.  The       *)
(* location is osgrid2lonlat(self.osgrid_1km), taken as the origin; a grid *)
(* point is <<x, y>> in metres from it.                                    *)
(***************************************************************************)
\* half the side of the window searched, in metres
Window == 10000

GridX == {0 - 10000, 500, 1500, 10000}

GridY == {0 - 500, 500}

GridPoints == GridX \X GridY

\* the time steps of the dataset
Times == {1, 2}

\* os_array.sel(x=lon, y=lat, method="nearest"): the nearest x and the
\* nearest y; which of two equally near coordinates is left open
SelNearest(xs, ys) ==
    {pt \in xs \X ys :
        /\ \A x \in xs : Abs(pt[1]) <= Abs(x)
        /\ \A y \in ys : Abs(pt[2]) <= Abs(y)}

\* the window of where(...): x in [lon - 10000, lon + 10000), y alike
InWindow(pt) ==
    /\ pt[1] >= 0 - Window /\ pt[1] < Window
    /\ pt[2] >= 0 - Window /\ pt[2] < Window

\* the first time step at which a point has data
FirstTime(ts) == CHOOSE t \in ts : \A u \in ts : t <= u

\* rows of to_dataframe come in the order (time, y, x); after dropna,
\* drop_duplicates keeps a point where it first appears
Before(d, a, b) ==
    \/ FirstTime(d[a]) < FirstTime(d[b])
    \/ FirstTime(d[a]) = FirstTime(d[b]) /\ a[2] < b[2]
    \/ FirstTime(d[a]) = FirstTime(d[b]) /\ a[2] = b[2] /\ a[1] < b[1]

RECURSIVE InOrder(_, _)
\* the points of a set in the order of their first rows
InOrder(d, pts) ==
    IF pts = {}
       THEN <<>>
       ELSE LET a == CHOOSE pt \in pts : \A b \in pts \ {pt} : Before(d, pt, b)
            IN  <<a>> \o InOrder(d, pts \ {a})

\* unique_combinations: the points of the window with a row left by dropna
UniqueCombinations(d) ==
    InOrder(d, {pt \in GridPoints : InWindow(pt) /\ d[pt] # {}})

\* the square of math.sqrt(dx ** 2 + dy ** 2), which orders as it does
Distance2(pt) == pt[1] * pt[1] + pt[2] * pt[2]

MutFartherWins(distance, closest) == distance > closest

\* if distance < closest_distance
Closer(distance, closest) == distance < closest

RECURSIVE ClosestFrom(_, _, _)
\* the loop of find_closest_point from position k on; best is the position
\* of closest_point, 0 for None
ClosestFrom(points, k, best) ==
    IF k > Len(points)
       THEN best
       ELSE ClosestFrom(points, k + 1,
                        IF best = 0 \/ Closer(Distance2(points[k]), Distance2(points[best]))
                           THEN k ELSE best)

\* find_closest_point: a position in points, 0 for None
FindClosestPoint(points) == ClosestFrom(points, 1, 0)

\* the rows of a point that hold data
RowsOf(d, pt) == {[pt |-> pt, t |-> t] : t \in d[pt]}

NoPoint == <<0, 0>>

ExtractIdle ==
    /\ edata = [pt \in GridPoints |-> {}]
    /\ estage = "input"
    /\ esel = NoPoint
    /\ epoint = NoPoint
    /\ erows = {}
    /\ eerr = "none"

ExtractInit ==
    /\ edata \in [GridPoints -> SUBSET Times]
    /\ estage = "input"
    /\ esel = NoPoint
    /\ epoint = NoPoint
    /\ erows = {}
    /\ eerr = "none"

\* the nearest point has no null: its rows are used
ExtractNearest(pt) ==
    /\ estage = "input"
    /\ pt \in SelNearest(GridX, GridY)
    /\ edata[pt] = Times
    /\ esel' = pt
    /\ epoint' = pt
    /\ erows' = RowsOf(edata, pt)
    /\ eerr' = "none"
    /\ estage' = "extracted"
    /\ UNCHANGED <<edata, notExtract>>

\* the nearest point has a null: the closest point of the window that has
\* rows left after dropna; closest["x"] on None is a TypeError
ExtractClosest(pt) ==
    /\ estage = "input"
    /\ pt \in SelNearest(GridX, GridY)
    /\ edata[pt] # Times
    /\ esel' = pt
    /\ LET points == UniqueCombinations(edata)
           closest == FindClosestPoint(points)
       IN  IF closest = 0
              THEN /\ epoint' = NoPoint
                   /\ erows' = {}
                   /\ eerr' = "TypeError"
              ELSE /\ epoint' = points[closest]
                   /\ erows' = RowsOf(edata, points[closest])
                   /\ eerr' = "none"
    /\ estage' = "extracted"
    /\ UNCHANGED <<edata, notExtract>>

(***************************************************************************)
(* find_contiguous_sets on a column with a RangeIndex.  A value is a       *)
(* number or NaN, as in the row component.                                 *)
(***************************************************************************)
\* the longest column tried
MaxRows == 6

\* data_frame[col_name] >= 0: False for NaN
Tag(col) == [k \in 1..Len(col) |-> ~col[k].nan /\ col[k].v >= 0]

\* tag & ~tag.shift(1).fillna(False): index values, from 0
FirstOfRuns(tag) ==
    {k - 1 : k \in {j \in 1..Len(tag) : tag[j] /\ (j = 1 \/ ~tag[j - 1])}}

\* index[tag & ~tag.shift(-1).fillna(False)] + 1
LastOfRuns(tag) ==
    {k : k \in {j \in 1..Len(tag) : tag[j] /\ (j = Len(tag) \/ ~tag[j + 1])}}

RECURSIVE Ascending(_)
\* the values of an index in the order of the rows
Ascending(S) ==
    IF S = {}
       THEN <<>>
       ELSE LET m == CHOOSE a \in S : \A b \in S : a <= b
            IN  <<m>> \o Ascending(S \ {m})

\* list(zip(first, last))
TupleList(tag) ==
    LET first == Ascending(FirstOfRuns(tag))
        last == Ascending(LastOfRuns(tag))
    IN  [k \in 1..Len(first) |-> <<first[k], last[k]>>]

\* max(end for _, end in tuple_list)
MaxIndex(tuples) ==
    CHOOSE e \in {tuples[k][2] : k \in 1..Len(tuples)} :
        \A k \in 1..Len(tuples) : tuples[k][2] <= e

\* result = [0] * max_index, then result[i] = index for i in range(start, end)
Labelled(tuples) ==
    [p \in 1..MaxIndex(tuples) |->
        IF \E k \in 1..Len(tuples) : tuples[k][1] <= p - 1 /\ p - 1 < tuples[k][2]
           THEN CHOOSE k \in 1..Len(tuples) : tuples[k][1] <= p - 1 /\ p - 1 < tuples[k][2]
           ELSE 0]

\* the values of a column: NaN and two numbers
ColumnValues == {NaN, Number(0), Number(3)}

RECURSIVE Columns(_)
\* the columns of at most n rows
Columns(n) ==
    IF n = 0
       THEN {<<>>}
       ELSE LET shorter == Columns(n - 1)
            IN  shorter \cup {Append(c, v) : c \in {s \in shorter : Len(s) = n - 1},
                                             v \in ColumnValues}

LabelIdle ==
    /\ lcol = <<>>
    /\ lstage = "input"
    /\ lresult = <<>>
    /\ lerr = "none"

LabelInit ==
    /\ lcol \in Columns(MaxRows) \ {<<>>}
    /\ lstage = "input"
    /\ lresult = <<>>
    /\ lerr = "none"

\* find_contiguous_sets(data_frame, col_name); max() of no run is a ValueError
FindContiguousSets ==
    /\ lstage = "input"
    /\ LET tuples == TupleList(Tag(lcol))
       IN  IF tuples = <<>>
              THEN lresult' = <<>> /\ lerr' = "ValueError"
              ELSE lresult' = Labelled(tuples) /\ lerr' = "none"
    /\ lstage' = "done"
    /\ UNCHANGED <<lcol, notLabel>>

(***************************************************************************)
(* The identifiers NetCDFWeatherDataProvider.__init__ makes from a         *)
(* reference, a scenario and an ensemble member, for two constructions     *)
(* side by side.                                                           *)
(***************************************************************************)
\* s[a:b] of a string or list, b within or beyond its end
Slice(s, a, b) == SubSeq(s, a + 1, IF b < Len(s) THEN b ELSE Len(s))

\* [int(s) for s in osgrid_code if s.isdigit()], then str() of each
OsDigits(s) ==
    LET ds == SelectSeq(s, IsDigit)
    IN  [k \in 1..Len(ds) |-> DigitChars[DigitValue(ds[k]) + 1]]

MutThird(n) == n \div 3

\* int(len(os_digits) / 2)
Half(n) == n \div 2

\* self.osgrid_1km
Osgrid1km(s) ==
    LET ds == OsDigits(s)
        h == Half(Len(ds))
    IN  Upper(Slice(s, 0, 2)) \o Slice(ds, 0, 2) \o Slice(ds, h, h + 2)

\* self.osgrid_10km
Osgrid10km(s) ==
    LET ds == OsDigits(s)
        h == Half(Len(ds))
    IN  Upper(Slice(s, 0, 2)) \o Slice(ds, 0, 1) \o Slice(ds, h, h + 1)

\* self.nc_fname, after the directory of the archives
NcFname(s, rcp, ensemble) ==
    Upper(Osgrid10km(s)) \o <<"_", rcp, "_">> \o FormatPadded(ensemble, 2) \o <<".nc">>

\* self.cache_fname inside the name _get_cache_filename gives
CacheFilename(s, rcp, ensemble) ==
    <<"NetCDFWeatherDataProvider", "_">> \o Osgrid1km(s)
        \o <<"_", rcp, "_">> \o FormatPadded(ensemble, 2) \o <<".cache">>

TileIds(s, rcp, ensemble) ==
    [osgrid_1km |-> Osgrid1km(s),
     osgrid_10km |-> Osgrid10km(s),
     nc_fname |-> NcFname(s, rcp, ensemble),
     cache_filename |-> CacheFilename(s, rcp, ensemble)]

NoIds == [osgrid_1km |-> <<>>, osgrid_10km |-> <<>>, nc_fname |-> <<>>, cache_filename |-> <<>>]

\* references of several precisions in and around the tile NT2772, in a
\* corner tile, and strings that are no reference
TileRefs ==
    { <<"N", "T", "2", "7", "7", "2">>,
      <<"n", "t", "2", "7", "7", "2">>,
      <<"N", "T", "2", "7", "7", "2", "\n">>,
      <<"N", "T", "2", "7", "5", "7", "2", "9">>,
      <<"N", "T", "2", "7", "0", "0", "0", "7", "2", "9", "9", "9">>,
      <<"N", "T", "2", "7", "9", "9", "9", "7", "2", "0", "0", "0">>,
      <<"N", "T", "2", "8", "0", "0", "0", "7", "2", "0", "0", "0">>,
      <<"N", "T", "2", "7", "7", "3">>,
      <<"N", "T", "3", "7", "7", "2">>,
      <<"N", "S", "2", "7", "7", "2">>,
      <<"S", "V", "0", "0", "0", "0", "0", "0">>,
      <<"H", "P", "9", "9", "9", "9", "9", "9", "9", "9", "9", "9">>,
      <<"N", "T", "2", "7">>,
      <<"N", "T", "2", "7", "5">> }

Scenarios == {"rcp26", "rcp85"}

Ensembles == {1, 12}

TileIdle ==
    /\ tref = <<<<>>, <<>>>>
    /\ trcp = <<"rcp26", "rcp26">>
    /\ tens = <<1, 1>>
    /\ tstage = "input"
    /\ tids = <<NoIds, NoIds>>

TileInit ==
    /\ tref \in TileRefs \X TileRefs
    /\ trcp \in Scenarios \X Scenarios
    /\ tens \in Ensembles \X Ensembles
    /\ tstage = "input"
    /\ tids = <<NoIds, NoIds>>

\* the names made at the start of __init__, for both constructions
NameTiles ==
    /\ tstage = "input"
    /\ tids' = [k \in 1..2 |-> TileIds(tref[k], trcp[k], tens[k])]
    /\ tstage' = "named"
    /\ UNCHANGED <<tref, trcp, tens, notTile>>

(***************************************************************************)
(* ParcelWeatherDataProvider.__init__ from the test of the CSV file on:    *)
(* the CSV file and the cache file of one parcel, each with its time of    *)
(* modification and the version of the observations it holds.              *)
(***************************************************************************)
NoParcelFile == [kind |-> "absent", mtime |-> 0, ver |-> 0]

NoCall ==
    [status |-> "none", force |-> FALSE, csv |-> NoParcelFile, found |-> NoParcelFile,
     source |-> "none", store |-> 0, write |-> "none"]

\* _find_cache_file: the cache file exists and is more recent than the CSV
ParcelFindCacheFile(cachefile, csvfile) ==
    cachefile.kind # "absent" /\ cachefile.mtime > csvfile.mtime

\* what self._dump(cache_filename) can do: write the file, fail to open it,
\* or fail while writing to the file it has opened and emptied
DumpOutcomes == {"written", "open failed", "write failed"}

\* the cache file after _write_cache_file
ParcelDumped(outcome, old, t, v) ==
    CASE outcome = "written" -> [kind |-> "whole", mtime |-> t, ver |-> v]
      [] outcome = "write failed" -> [kind |-> "cut", mtime |-> t, ver |-> v]
      [] outcome = "open failed" -> old

\* the cache is loaded: not force_reload, and a cache file was found
LoadsCache(force, found) == ~force /\ found

ParcelIdle ==
    /\ pclock = 0
    /\ pcsv = NoParcelFile
    /\ pcache = NoParcelFile
    /\ pcalls = 0
    /\ pcall = NoCall

ParcelInit ==
    /\ pclock = 0
    /\ pcsv \in {NoParcelFile, [kind |-> "whole", mtime |-> 0, ver |-> 1]}
    /\ pcache = NoParcelFile
    /\ pcalls = 0
    /\ pcall = NoCall

\* ParcelWeatherDataProvider(..., force_reload=force); outcome is what the
\* write of the cache does if it is attempted
ParcelCall(force, outcome) ==
    /\ pcalls < MaxCalls
    /\ pcalls' = pcalls + 1
    /\ LET this == [NoCall EXCEPT !.force = force, !.csv = pcsv, !.found = pcache]
       IN  IF pcsv.kind = "absent"
              THEN /\ pcall' = [this EXCEPT !.status = "PCSEError"]
                   /\ UNCHANGED pcache
              ELSE IF LoadsCache(force, ParcelFindCacheFile(pcache, pcsv))
                      THEN /\ pcall' =
                                 IF pcache.kind = "whole"
                                    THEN [this EXCEPT !.status = "ok", !.source = "cache",
                                                      !.store = pcache.ver]
                                    \* pickle.load on a file that was cut short
                                    ELSE [this EXCEPT !.status = "EOFError", !.source = "cache"]
                           /\ UNCHANGED pcache
                      ELSE /\ pcall' = [this EXCEPT !.status = "ok", !.source = "csv",
                                                    !.store = pcsv.ver, !.write = outcome]
                           /\ pcache' = ParcelDumped(outcome, pcache, pclock, pcsv.ver)
    /\ UNCHANGED <<pclock, pcsv, notParcel>>

\* the CSV file of the parcel is written again, with new observations
CsvWrite ==
    /\ pcsv.ver < MaxVer
    /\ pcsv' = [kind |-> "whole", mtime |-> pclock, ver |-> pcsv.ver + 1]
    /\ pcall' = NoCall
    /\ UNCHANGED <<pclock, pcache, pcalls, notParcel>>

\* time passes
ClockTick ==
    /\ pclock < MaxClock
    /\ pclock' = pclock + 1
    /\ pcall' = NoCall
    /\ UNCHANGED <<pcsv, pcache, pcalls, notParcel>>

Others(p) == Callers \ {p}

AllIdle(S) == \A q \in S : provider[q].pc = "idle"

Step(p) ==
    \/ Locate(p)
    \/ Terrain(p)
    \/ CheckCache(p)
    \/ LoadFresh(p)
    \/ Build(p)
    \/ LoadFallback(p)
    \/ DumpOpen(p)
    \/ DumpWrite(p)
    \/ Return(p)
    \/ Abandon(p)

Env ==
    \/ \E d \in {1, MaxAgeDays} : Tick(d)
    \/ ArchiveRemove
    \/ ArchiveUpdate

\* one construction at a time
Next ==
    \/ \E p \in Callers, f \in BOOLEAN : AllIdle(Others(p)) /\ Call(p, f)
    \/ \E p \in Callers : Step(p)
    \/ Env

Init == CacheInit /\ CodecIdle /\ ParseIdle /\ BuildIdle /\ RowIdle /\ ExtractIdle /\ LabelIdle /\ TileIdle /\ ParcelIdle

Spec == Init /\ [][Next]_vars

\* overlapping constructions
NextConc ==
    \/ \E p \in Callers, f \in BOOLEAN : Call(p, f)
    \/ \E p \in Callers : Step(p)
    \/ Env

SpecConc == Init /\ [][NextConc]_vars

CacheIdle ==
    /\ now = 0
    /\ ticks = 0
    /\ calls = 0
    /\ cache = NoParcelFile
    /\ archive = Archive("good", 1)
    /\ dtm = "up"
    /\ provider = [p \in Callers |-> Idle]
    /\ prev = NoPrev

InitCodec == CacheIdle /\ CodecInit /\ ParseIdle /\ BuildIdle /\ RowIdle /\ ExtractIdle /\ LabelIdle /\ TileIdle /\ ParcelIdle

NextCodec == Encode \/ Decode

SpecCodec == InitCodec /\ [][NextCodec]_vars

\* osgrid2lonlat and osgrid2bbox on a string
InitParse == CacheIdle /\ CodecIdle /\ ParseInit /\ BuildIdle /\ RowIdle /\ ExtractIdle /\ LabelIdle /\ TileIdle /\ ParcelIdle

NextParse == DecodeText \/ BoundingBox

SpecParse == InitParse /\ [][NextParse]_vars

\* the build of one series
InitBuild == CacheIdle /\ CodecIdle /\ ParseIdle /\ BuildInit /\ RowIdle /\ ExtractIdle /\ LabelIdle /\ TileIdle /\ ParcelIdle

NextBuild ==
    \/ Convert
    \/ \E day \in missing : Fill(day)
    \/ Sort
    \/ \E b \in BadRows(years), exc \in RowErrors : ReadObservations(b, exc)
    \/ Dump

SpecBuild == InitBuild /\ [][NextBuild]_vars

\* the reading of one value
InitRow == CacheIdle /\ CodecIdle /\ ParseIdle /\ BuildIdle /\ RowInit /\ ExtractIdle /\ LabelIdle /\ TileIdle /\ ParcelIdle

NextRow == NetCDFRead \/ ParcelRead

SpecRow == InitRow /\ [][NextRow]_vars

\* the extraction of the rows of one grid point
InitExtract == CacheIdle /\ CodecIdle /\ ParseIdle /\ BuildIdle /\ RowIdle /\ ExtractInit /\ LabelIdle /\ TileIdle /\ ParcelIdle

NextExtract ==
    \/ \E pt \in GridPoints : ExtractNearest(pt)
    \/ \E pt \in GridPoints : ExtractClosest(pt)

SpecExtract == InitExtract /\ [][NextExtract]_vars

\* the labelling of the runs of a column
InitLabel == CacheIdle /\ CodecIdle /\ ParseIdle /\ BuildIdle /\ RowIdle /\ ExtractIdle /\ LabelInit /\ TileIdle /\ ParcelIdle

NextLabel == FindContiguousSets

SpecLabel == InitLabel /\ [][NextLabel]_vars

\* the identifiers of two constructions
InitTile == CacheIdle /\ CodecIdle /\ ParseIdle /\ BuildIdle /\ RowIdle /\ ExtractIdle /\ LabelIdle /\ TileInit /\ ParcelIdle

NextTile == NameTiles

SpecTile == InitTile /\ [][NextTile]_vars

\* the parcel provider and its two files
InitParcel == CacheIdle /\ CodecIdle /\ ParseIdle /\ BuildIdle /\ RowIdle /\ ExtractIdle /\ LabelIdle /\ TileIdle /\ ParcelInit

NextParcel ==
    \/ \E force \in BOOLEAN, outcome \in DumpOutcomes : ParcelCall(force, outcome)
    \/ CsvWrite
    \/ ClockTick

SpecParcel == InitParcel /\ [][NextParcel]_vars

TypeOK ==
    /\ now \in Nat
    /\ cache.kind \in {"absent", "ok", "empty", "corrupt", "unreadable"}
    /\ \A p \in Callers : provider[p].builds \in 0..1

(***************************************************************************)
(* The cache claims.  A claim about get is about a construction with the   *)
(* default force_update = False that has reached the cache decision; snap  *)
(* is the cache file that decision found.                                  *)
(***************************************************************************)
Done(p) == provider[p].pc = "done"

Got(p) == Done(p) /\ ~provider[p].force

Missing(p) == provider[p].snap.kind = "absent"

FreshEntry(p) ==
    provider[p].snap.kind = "ok" /\ provider[p].snap.age < MaxAgeDays

StaleEntry(p) ==
    provider[p].snap.kind = "ok" /\ provider[p].snap.age >= MaxAgeDays

Unchanged(p) ==
    cache = CacheFile(provider[p].snap.kind, provider[p].snap.series,
                      provider[p].snap.mtime)

\* C1: a stale entry whose rebuild fails, for whatever reason, is served
\* as it is: the old series is returned, the file is left as it was and the
\* degrade diagnostic is logged.
C1_StaleFailedRebuildDegrades ==
    \A p \in Callers :
        (Got(p) /\ StaleEntry(p) /\ provider[p].raised # "none") =>
            /\ provider[p].status = "ok"
            /\ provider[p].store = provider[p].snap.series
            /\ provider[p].degraded
            /\ Unchanged(p)

\* C2: an entry younger than 90 days is returned without a build: the
\* construction succeeds with the cached series and zero builder calls.
C2_FreshNoRebuild ==
    \A p \in Callers :
        (Got(p) /\ FreshEntry(p)) =>
            /\ provider[p].builds = 0
            /\ provider[p].status = "ok"
            /\ provider[p].store = provider[p].snap.series

C2_Witness ==
    \E p \in Callers :
        /\ Got(p) /\ FreshEntry(p)
        /\ provider[p].snap.age = MaxAgeDays - 1
        /\ provider[p].status = "ok"
        /\ provider[p].builds = 0

\* C3: a stale entry whose rebuild succeeds costs exactly one build, the
\* file then holds the newly built series, and that series is returned.
C3_StaleRebuildReplaces ==
    \A p \in Callers :
        (Got(p) /\ StaleEntry(p) /\ provider[p].raised = "none") =>
            /\ provider[p].builds = 1
            /\ provider[p].built # 0
            /\ provider[p].status = "ok"
            /\ provider[p].store = provider[p].built
            /\ cache.kind = "ok"
            /\ cache.series = provider[p].built
            /\ cache.mtime > provider[p].snap.mtime

C3_Witness ==
    \E p \in Callers :
        /\ Got(p) /\ StaleEntry(p)
        /\ provider[p].builds = 1
        /\ provider[p].status = "ok"
        /\ provider[p].store = 2
        /\ provider[p].snap.series = 1
        /\ cache = CacheFile("ok", 2, now)

\* C4: with no cache file the builder runs exactly once; a successful build
\* is written to the file and returned; a failed build is raised to the
\* caller and leaves no cache file.
C4_MissingBuildsOnce ==
    \A p \in Callers :
        (Done(p) /\ Missing(p)) =>
            /\ provider[p].builds = 1
            /\ provider[p].raised = "none" =>
                  /\ provider[p].status = "ok"
                  /\ provider[p].built # 0
                  /\ provider[p].store = provider[p].built
                  /\ cache.kind = "ok"
                  /\ cache.series = provider[p].built
            /\ provider[p].raised # "none" =>
                  /\ provider[p].status = provider[p].raised
                  /\ cache.kind = "absent"

C4_Witness ==
    \E p \in Callers :
        /\ Done(p) /\ Missing(p)
        /\ provider[p].status = "ok"
        /\ provider[p].builds = 1
        /\ cache = CacheFile("ok", provider[p].store, now)

C4_WitnessFailure ==
    \E p \in Callers :
        /\ Done(p) /\ Missing(p)
        /\ provider[p].status = "ValueError"
        /\ cache.kind = "absent"

\* the second of two constructions in succession: nothing changed since the
\* first one returned
Second(p) == Got(p) /\ provider[p].pred.status # "none"

SameOutcome(p) ==
    /\ provider[p].status = provider[p].pred.status
    /\ provider[p].store = provider[p].pred.store

FirstServed(p) ==
    provider[p].pred.status = "ok" /\ ~provider[p].pred.degraded

C6_MissingArchiveServedFromCache ==
    \A p \in Callers :
        (Got(p) /\ dtm = "up" /\ archive.kind = "absent" /\ cache.kind = "ok") =>
            /\ provider[p].status = "ok"
            /\ provider[p].store = cache.series

\* C7: an entry that cannot be read, whatever the read failure, counts as
\* missing: get rebuilds from the archive and returns the rebuilt series.
C7_UnreadableEntryRebuilt ==
    \A p \in Callers :
        (/\ Got(p)
         /\ provider[p].snap.kind \in {"empty", "corrupt", "unreadable"}
         /\ provider[p].raised = "none") =>
            /\ provider[p].status = "ok"
            /\ provider[p].builds = 1
            /\ provider[p].store = provider[p].built

\* C8: a write replaces the whole entry: no reader of the key, during a
\* write or after an interrupted one, finds a half-written file.
C8_NoHalfWrittenEntrySeen ==
    \A p \in Callers : provider[p].snap.kind # "empty"

\* the caller found the key missing or stale, has run the builder and is
\* about to write, or is writing, the entry
InRebuild(p) ==
    /\ provider[p].pc \in {"dump", "write"}
    /\ provider[p].builds = 1
    /\ ~provider[p].force
    /\ Missing(p) \/ StaleEntry(p)

\* C9: check, rebuild and write are one critical section per key: of two
\* callers of the same missing or stale key at most one rebuilds and writes.
C9_RebuildIsCriticalSection ==
    \A p \in Callers : \A q \in Callers \ {p} : ~(InRebuild(p) /\ InRebuild(q))
(***************************************************************************)
(* The codec claims.                                                       *)
(***************************************************************************)
\* the cell of a reference of f figures, in metres
CellMetres(f) == CASE f = 4 -> 1000 [] f = 6 -> 100 [] f = 8 -> 10 [] OTHER -> 1

InsideTable(xy) ==
    /\ 0 <= xy[1] /\ xy[1] < NCols * RegionSide * Grain
    /\ 0 <= xy[2] /\ xy[2] < NRows * RegionSide * Grain

\* C10: for a projected point inside the 13 x 7 table and 4, 6, 8 or 10
\* figures, encoding succeeds with two letters and that many digits, and
\* decoding the reference gives the south-west corner of the point's cell:
\* 0 <= x - x' < cell and 0 <= y - y' < cell, in the same 100 km region.
C10_RoundTripWithinCell ==
    (stage # "input" /\ InsideTable(coords) /\ figs \in ValidFigs) =>
        /\ err = "none"
        /\ Len(gridref) = 2 + figs
        /\ stage = "decoded" =>
              /\ 0 <= coords[1] - decoded[1] * Grain
              /\ coords[1] - decoded[1] * Grain < CellMetres(figs) * Grain
              /\ 0 <= coords[2] - decoded[2] * Grain
              /\ coords[2] - decoded[2] * Grain < CellMetres(figs) * Grain
              /\ decoded[1] \div RegionSide = coords[1] \div (RegionSide * Grain)
              /\ decoded[2] \div RegionSide = coords[2] \div (RegionSide * Grain)

C10_Witness ==
    /\ stage = "decoded"
    /\ err = "none"
    /\ figs = 10
    /\ coords = <<327550 * Grain + Grain - 1, 672950 * Grain + Grain - 1>>
    /\ gridref = <<"N", "T", "2", "7", "5", "5", "0", "7", "2", "9", "5", "0">>
    /\ decoded = <<327550, 672950>>

(***************************************************************************)
(* The claims about references: lonlat2osgrid on a point outside the       *)
(* table, osgrid2lonlat and osgrid2bbox on a string.                       *)
(***************************************************************************)
OutsideTable(xy) ==
    \/ xy[1] < 0
    \/ xy[2] < 0
    \/ xy[1] >= NCols * RegionSide * Grain
    \/ xy[2] >= NRows * RegionSide * Grain

\* C11: for every projected point with x < 0, y < 0, x >= 700000 or
\* y >= 1300000, lonlat2osgrid raises BNGError and returns no reference.
C11_OutsideTableIsBNGError ==
    (stage # "input" /\ OutsideTable(coords)) =>
        /\ err = "BNGError"
        /\ gridref = <<>>

\* two letters, in either case, that name a region of the table, then a
\* payload of digits and nothing else
RegionThenDigits(s, lens) ==
    /\ Len(s) - 2 \in lens
    /\ Upper(s)[1] \o Upper(s)[2] \in RegionCodes
    /\ \A k \in 3..Len(s) : IsDigit(s[k])

\* the easting and the northing of a payload: its two equal halves
Easting(s) == ParseInt(SubSeq(s, 3, 2 + (Len(s) - 2) \div 2))

Northing(s) == ParseInt(SubSeq(s, 3 + (Len(s) - 2) \div 2, Len(s)))

\* region origin + digits scaled by 10^(5 - n/2)
PointOf(s) ==
    LET off == OffsetMap(Upper(s)[1] \o Upper(s)[2])
        scale == Pow10(5 - (Len(s) - 2) \div 2)
    IN  <<off[1] + Easting(s) * scale, off[2] + Northing(s) * scale>>

\* C12: osgrid2lonlat returns a point only for two letters naming a region
\* followed by exactly 4, 6, 8 or 10 digits, and raises BNGError for every
\* other string; the point returned is region origin + digits scaled by
\* 10^(5 - n/2), halves as easting and northing, both non-negative.
C12_DecodeAcceptsOnlyReferences ==
    pstage # "input" =>
        IF RegionThenDigits(text, ValidFigs)
           THEN /\ perr = "none"
                /\ point = PointOf(text)
                /\ point[1] >= 0 /\ point[2] >= 0
           ELSE perr = "BNGError"

CellSide(cell) == IF cell = "10km" THEN TenKm ELSE RegionSide

\* C13: for a reference osgrid2lonlat accepts and os_cellsize "10km" or
\* "100km", osgrid2bbox returns the square of that side, aligned to the
\* grid of that side, that contains the decoded point.
C13_BoxContainsReference ==
    (pstage = "box" /\ perr = "none" /\ cellsize \in {"10km", "100km"}) =>
        /\ berr = "none"
        /\ box.xmax - box.xmin = CellSide(cellsize)
        /\ box.ymax - box.ymin = CellSide(cellsize)
        /\ box.xmin % CellSide(cellsize) = 0
        /\ box.ymin % CellSide(cellsize) = 0
        /\ box.xmin <= point[1] /\ point[1] < box.xmax
        /\ box.ymin <= point[2] /\ point[2] < box.ymax

\* the payloads the message of osgrid2bbox lists: none, 2, 4, 6, 8 or 10
BoxFigs == {0, 2} \cup ValidFigs

\* C14: osgrid2bbox raises BNGError and returns no box for every
\* os_cellsize other than "10km" and "100km" and, for those two, for every
\* string that is not two letters naming a region followed by an accepted
\* payload of digits.
C14_BoxRejectsMalformed ==
    (pstage = "box"
        /\ \/ cellsize \notin {"10km", "100km"}
           \/ ~RegionThenDigits(text, BoxFigs)) =>
        /\ berr = "BNGError"
        /\ box = NoBox

(***************************************************************************)
(* The claims about the 360-day calendar.  They are read once the loop     *)
(* over missing_days has ended and the frame is sorted.                    *)
(***************************************************************************)
Normalized == nstage \notin {"source", "fill"}

\* the first and the last converted date of the source rows
FirstDate(ys) == CalcDoy(ys[1], 1)

LastDate(ys) == CalcDoy(ys[Len(ys)], SourceDays)

\* C15: for whole source years of 360 days, the normalized frame has one
\* row for every date from the first to the last converted date, none
\* missing, none twice, none outside, in ascending order.
C15_OneRowPerDate ==
    Normalized =>
        /\ Len(frame) = LastDate(years) - FirstDate(years) + 1
        /\ \A k \in 1..Len(frame) : frame[k].DAY = FirstDate(years) + k - 1

C15_Witness ==
    /\ nstage = "sorted"
    /\ years = <<2019, 2020>>
    /\ frame[1].DAY = ToOrdinal(2019, 1, 1)
    /\ frame[Len(frame)].DAY = ToOrdinal(2020, 12, 26)
    /\ \E k \in 1..Len(frame) : frame[k].DAY = ToOrdinal(2020, 2, 29)
    /\ \E k \in 1..Len(frame) : frame[k].DAY = ToOrdinal(2019, 12, 29)

\* the dates present after the conversion
SourceDates(ys) == {CalcDoy(ys[i], d) : i \in 1..Len(ys), d \in 1..SourceDays}

\* the source row a missing day is nearest to, the earlier one of two
NearestSource(day, ys) ==
    LET conv == Converted(ys)
        least == LeastDistance(Index(conv), day, 0)
    IN  conv[CHOOSE k \in 1..Len(conv) :
                 /\ Abs(conv[k].DAY - day) = least
                 /\ \A j \in 1..Len(conv) :
                       Abs(conv[j].DAY - day) = least => conv[k].DAY <= conv[j].DAY]

\* C16: every filled row carries the values of the source row whose date
\* is nearest to it, the earlier of two equally near, never those of a row
\* that was itself filled.
C16_FilledFromNearestSource ==
    Normalized =>
        LET src == SourceDates(years)
        IN  \A k \in 1..Len(frame) :
                frame[k].DAY \notin src =>
                    frame[k].VAL = NearestSource(frame[k].DAY, years).VAL

Least(S) == CHOOSE d \in S : \A e \in S : d <= e

RECURSIVE FilledInOrder(_, _)
\* the loop over missing_days when it visits the days in ascending order
FilledInOrder(f, days) ==
    IF days = {}
       THEN f
       ELSE FilledInOrder(Filled(f, Least(days)), days \ {Least(days)})

\* C17: the normalized frame is a function of the source rows alone: it is
\* the frame of the run that visits the missing days in ascending order,
\* whatever order this run visited them in.
C17_SameSeriesWhateverOrder ==
    Normalized =>
        LET conv == Converted(years)
            days == DateRange(conv) \ SourceDates(years)
        IN  frame = SortIndex(FilledInOrder(conv, days))

Days(f) == {f[k].DAY : k \in 1..Len(f)}

\* C18 as stated: the year 2020 with rows 1..360 gives a series from
\* 2020-01-01 over the whole year, the days after 2020-12-26 present and
\* carrying the values of the nearest source day.
C18_Year2020WholeYear ==
    (Normalized /\ years = <<2020>>) =>
        /\ frame[1].DAY = ToOrdinal(2020, 1, 1)
        /\ Days(frame) = ToOrdinal(2020, 1, 1)..ToOrdinal(2020, 12, 31)
        /\ \A k \in 1..Len(frame) :
               frame[k].DAY > ToOrdinal(2020, 12, 26) => frame[k].VAL = SourceDays

\* C18, amended: the year 2020 with rows 1..360 gives a series of 361 rows
\* from 2020-01-01 to 2020-12-26, the conversion of source day 360; source
\* rows keep their values, and the one date the conversion leaves out,
\* 2020-02-29, carries the values of source day 59 (2020-02-28), the
\* earlier of its two nearest source days.
C18_Year2020ToLastSourceDay ==
    (Normalized /\ years = <<2020>>) =>
        /\ frame[1].DAY = ToOrdinal(2020, 1, 1)
        /\ Len(frame) = 361
        /\ \A k \in 1..Len(frame) : frame[k].DAY = ToOrdinal(2020, 1, 1) + k - 1
        /\ frame[Len(frame)] = Row(ToOrdinal(2020, 12, 26), SourceDays)
        /\ \A k \in 1..Len(frame) :
               frame[k].VAL = IF k <= 59 THEN k ELSE k - 1

C18_Witness ==
    /\ nstage = "sorted"
    /\ years = <<2020>>
    /\ frame[60] = Row(ToOrdinal(2020, 2, 29), 59)
    /\ missing = {}

(***************************************************************************)
(* The claims about the rows dropped by _read_observations.                *)
(***************************************************************************)
Emitted == nstage \in {"read", "dumped"}

StoredDays == {r.DAY : r \in store}

\* C19: the series a build emits has exactly one record for every date
\* between its first and its last date, also when rows were dropped: every
\* stored date but the last is followed by the next calendar date.
C19_EmittedSeriesGapFree ==
    (Emitted /\ store # {}) =>
        /\ Cardinality(store) = Cardinality(StoredDays)
        /\ \A d \in StoredDays :
               \/ d + 1 \in StoredDays
               \/ \A e \in StoredDays : e <= d

\* C20: a build in which every row is dropped fails: it neither returns
\* nor writes a cache file holding a series of no rows.
C20_NoSeriesFromNoRows ==
    ~(nstage = "dumped" /\ pickled.written /\ pickled.store = {})

(***************************************************************************)
(* The claims about failing rows, the terrain lookup and missing values.   *)
(***************************************************************************)
\* C21: whatever a failing row raises, the rows that fail are dropped and
\* no others: every row whose values do not fail is stored, and no
\* exception leaves the build.
C21_RowFailuresStayInTheBuild ==
    nstage \in {"read", "dumped", "failed"} =>
        /\ berror = "none"
        /\ store = Stored(frame, bad)

\* C22: a construction made while the terrain database cannot be reached
\* goes on with a default elevation: it does not end with the TypeError of
\* subscripting what get_dtm_values returned.
C22_TerrainFailureDefaultsToZero ==
    \A p \in Callers :
        (Done(p) /\ dtm = "down") => provider[p].status # "TypeError"

\* within epsilon of the provider's configured no-data value
AtSentinel == ~rvalue.nan /\ Abs(rvalue.v - NodataValue(rprov)) < Eps

\* C23: a value is taken as missing exactly when it is within 0.0001 of the
\* provider's no-data value; a missing SNOWDEPTH keeps the row, with the
\* configured default or nothing for the column; a missing value of any
\* other column drops the row; a no-data value is never kept as data.
C23_MissingIsTheSentinel ==
    rstage = "read" =>
        /\ rflag <=> AtSentinel
        /\ (rflag /\ rlabel = "SNOWDEPTH") =>
               rkept /\ rstored \in {rdefault, "absent"}
        /\ (rflag /\ rlabel # "SNOWDEPTH") => ~rkept
        /\ AtSentinel => rstored # "converted"

\* the same for the provider that reads its no-data value
NetCDFMissingIsTheSentinel ==
    rprov = "netcdf" => C23_MissingIsTheSentinel

\* the points of the window that have data at some time step
Candidates == {pt \in GridPoints : InWindow(pt) /\ edata[pt] # {}}

C25_BoxAcceptsWhatDecodeAccepts ==
    (pstage = "box" /\ cellsize = "10km") =>
        (berr = "none" <=> perr = "none")

\* the two agree on every string whose payload is not of two digits
BoxAndDecodeAgreeBeyondTwoFigures ==
    (pstage = "box" /\ cellsize = "10km" /\ Len(BeforeNewline(text)) # 4) =>
        (berr = "none" <=> perr = "none")

\* the reference was produced from a point inside the table
Encoded == stage # "input" /\ err = "none"

\* the digits of the easting and of the northing of the reference
EastingDigits == ParseInt(SubSeq(gridref, 3, 2 + Width(figs)))

NorthingDigits == ParseInt(SubSeq(gridref, 3 + Width(figs), 2 + 2 * Width(figs)))

\* the region letters and both digit groups are those of the floor: the
\* region is the one of the whole hundreds of kilometres, the digits are the
\* whole cells of the remainder
FloorEverywhere ==
    LET mx == coords[1] \div Grain
        my == coords[2] \div Grain
    IN  /\ <<gridref[1], gridref[2]>> =
               CodeChars(Regions(mx \div RegionSide, my \div RegionSide))
        /\ EastingDigits = (mx % RegionSide) \div Factor(figs)
        /\ NorthingDigits = (my % RegionSide) \div Factor(figs)

\* the coordinate is a whole number of cells, above the first
OnBoundary(v) == v > 0 /\ v % (Factor(figs) * Grain) = 0

\* C26 as stated: floor for the region index and for the digits at every
\* precision, and a coordinate exactly on a cell boundary is put in the
\* lower of the two cells that meet there.
C26_BoundaryInLowerCell ==
    Encoded =>
        /\ FloorEverywhere
        /\ OnBoundary(coords[1]) =>
              Osgrid2lonlat(gridref).xy[1] = (coords[1] \div Grain) - Factor(figs)
        /\ OnBoundary(coords[2]) =>
              Osgrid2lonlat(gridref).xy[2] = (coords[2] \div Grain) - Factor(figs)

\* C26, amended: floor for the region index and for the digits at every
\* precision, never rounding; a coordinate exactly on a cell boundary is put
\* in the cell that starts at that boundary, the upper of the two cells
\* that meet there.
C26_BoundaryStartsItsCell ==
    Encoded =>
        /\ FloorEverywhere
        /\ OnBoundary(coords[1]) =>
              Osgrid2lonlat(gridref).xy[1] = coords[1] \div Grain
        /\ OnBoundary(coords[2]) =>
              Osgrid2lonlat(gridref).xy[2] = coords[2] \div Grain

\* a point on a 1 km boundary in x and on a 100 km boundary in y
C26_Witness ==
    /\ Encoded
    /\ figs = 4
    /\ coords = <<1000 * Grain, 100000 * Grain>>
    /\ OnBoundary(coords[1])
    /\ OnBoundary(coords[2])
    /\ EastingDigits = 1
    /\ NorthingDigits = 0

\* the number of runs of values that have started at row k or before
RunsUpTo(col, k) ==
    Cardinality({j \in 1..k : ~col[j].nan /\ (j = 1 \/ col[j - 1].nan)})

\* C27: find_contiguous_sets returns one label per row of the column, in
\* row order: 0 at every NA row, leading, interior or trailing, and k at
\* every row of the k-th run of values; the list is as long as the column.
C27_OneLabelPerRow ==
    lstage = "done" =>
        /\ lerr = "none"
        /\ Len(lresult) = Len(lcol)
        /\ \A k \in 1..Len(lcol) :
              k <= Len(lresult) =>
                  lresult[k] = IF lcol[k].nan THEN 0 ELSE RunsUpTo(lcol, k)

\* the labels that are returned are the right ones, and only the rows
\* after the last value have none
LabelsUpToLastValue ==
    (lstage = "done" /\ lerr = "none") =>
        /\ Len(lresult) <= Len(lcol)
        /\ ~lcol[Len(lresult)].nan
        /\ \A k \in 1..Len(lcol) :
              IF k <= Len(lresult)
                 THEN lresult[k] = IF lcol[k].nan THEN 0 ELSE RunsUpTo(lcol, k)
                 ELSE lcol[k].nan

\* the year and the day of the year of source row k
SourceYearOf(k) == years[((k - 1) \div SourceDays) + 1]

SourceDayOf(k) == ((k - 1) % SourceDays) + 1

\* C28: calc_doy gives every day 1..360 of every source year, leap or not,
\* a date of that same year; a later source day gets a later date, so no
\* two source days get the same date; and no source day gets 29 February.
C28_ConversionKeepsOrder ==
    nstage = "fill" =>
        \A k \in 1..(SourceDays * Len(years)) :
            LET y == SourceYearOf(k)
                d == frame[k].DAY
            IN  /\ frame[k].VAL = k
                /\ DaysBeforeYear(y) < d
                /\ d <= DaysBeforeYear(y + 1)
                /\ d # DaysBeforeYear(y) + 60 \/ ~IsLeap(y)
                /\ k > 1 => frame[k - 1].DAY < d
                /\ SourceDayOf(k) <= d - DaysBeforeYear(y)

\* a leap year after another year: day 360 of 2019 is 26 December, day 1 of
\* 2020 the first of January, days 59 and 60 of 2020 are 28 February and
\* the first of March
C28_Witness ==
    /\ nstage = "fill"
    /\ years = <<2019, 2020>>
    /\ frame[SourceDays].DAY = ToOrdinal(2019, 12, 26)
    /\ frame[SourceDays + 1].DAY = ToOrdinal(2020, 1, 1)
    /\ frame[SourceDays + 59].DAY = ToOrdinal(2020, 2, 28)
    /\ frame[SourceDays + 60].DAY = ToOrdinal(2020, 3, 1)
    /\ frame[2 * SourceDays].DAY = ToOrdinal(2020, 12, 26)

\* the reference is one osgrid2lonlat accepts
IsReference(s) == Osgrid2lonlat(s).err = "none"

\* the point osgrid2lonlat gives
Decoded(s) == Osgrid2lonlat(s).xy

\* the 1 km and the 10 km tile named for reference k hold its point, and
\* the 10 km tile holds the 1 km tile
TilesHoldPoint(k) ==
    LET p == Decoded(tref[k])
        one == Osgrid2lonlat(tids[k].osgrid_1km)
        ten == Osgrid2bbox(tids[k].osgrid_10km, "10km")
    IN  /\ one.err = "none"
        /\ ten.err = "none"
        /\ one.xy[1] <= p[1] /\ p[1] < one.xy[1] + 1000
        /\ one.xy[2] <= p[2] /\ p[2] < one.xy[2] + 1000
        /\ ten.box.xmin <= one.xy[1] /\ one.xy[1] + 1000 <= ten.box.xmax
        /\ ten.box.ymin <= one.xy[2] /\ one.xy[2] + 1000 <= ten.box.ymax
        /\ ten.box.xmax - ten.box.xmin = TenKm
        /\ ten.box.ymax - ten.box.ymin = TenKm

\* the two references are in one square kilometre
SameKilometre ==
    /\ Decoded(tref[1])[1] \div 1000 = Decoded(tref[2])[1] \div 1000
    /\ Decoded(tref[1])[2] \div 1000 = Decoded(tref[2])[2] \div 1000

\* C29: the 1 km tile and the 10 km tile named for a reference both hold
\* the point the reference decodes to, the 10 km tile holds the 1 km tile,
\* and two references of one square kilometre with the same scenario and
\* ensemble member get the same cache file name and the same archive name.
C29_TilesHoldTheReference ==
    tstage = "named" =>
        /\ \A k \in 1..2 : IsReference(tref[k]) => TilesHoldPoint(k)
        /\ (/\ IsReference(tref[1]) /\ IsReference(tref[2])
            /\ SameKilometre
            /\ trcp[1] = trcp[2] /\ tens[1] = tens[2]) =>
               /\ tids[1].cache_filename = tids[2].cache_filename
               /\ tids[1].nc_fname = tids[2].nc_fname

\* a 10-figure reference and a lower-case 4-figure one of the same square
\* kilometre, same scenario and member
C29_Witness ==
    /\ tstage = "named"
    /\ tref[1] = <<"N", "T", "2", "7", "9", "9", "9", "7", "2", "0", "0", "0">>
    /\ tref[2] = <<"n", "t", "2", "7", "7", "2">>
    /\ trcp = <<"rcp85", "rcp85">>
    /\ tens = <<12, 12>>
    /\ tids[1].osgrid_1km = <<"N", "T", "2", "7", "7", "2">>
    /\ tids[1].osgrid_10km = <<"N", "T", "2", "7">>
    /\ tids[1].cache_filename = tids[2].cache_filename

\* a construction has ended and the CSV file was there
ParcelCalled == pcall.status # "none" /\ pcall.csv.kind # "absent"

\* the condition of the claim: no force_reload, and a cache file with a
\* modification time strictly later than that of the CSV file
CacheIsNewer ==
    /\ ~pcall.force
    /\ pcall.found.kind # "absent"
    /\ pcall.found.mtime > pcall.csv.mtime

\* C30: the parcel provider reuses its cache exactly when force_reload is
\* false and the cache file is strictly newer than the CSV file; in every
\* other case it reads the CSV file again and attempts to write the cache,
\* and the call returns the series just read even when that write fails.
C30_CacheReusedWhenNewer ==
    ParcelCalled =>
        IF CacheIsNewer
           THEN /\ pcall.status = "ok"
                /\ pcall.source = "cache"
                /\ pcall.store = pcall.found.ver
                /\ pcall.write = "none"
           ELSE /\ pcall.status = "ok"
                /\ pcall.source = "csv"
                /\ pcall.store = pcall.csv.ver
                /\ pcall.write \in DumpOutcomes

\* the same, for the constructions that did not find a cache file cut short
CacheReusedWhenNewerAndWhole ==
    (ParcelCalled /\ ~(CacheIsNewer /\ pcall.found.kind = "cut")) =>
        IF CacheIsNewer
           THEN /\ pcall.status = "ok"
                /\ pcall.source = "cache"
                /\ pcall.store = pcall.found.ver
                /\ pcall.write = "none"
           ELSE /\ pcall.status = "ok"
                /\ pcall.source = "csv"
                /\ pcall.store = pcall.csv.ver
                /\ pcall.write \in DumpOutcomes
====
